---- MODULE Spec2Model ----
(***************************************************************************)
(* Model of log_analyzer.py: LogEntry, LogParser and LogAnalyzer.          *)
(*                                                                         *)
(* Text is a sequence of lexemes.  A lexeme is a short run of characters   *)
(* that the regular expressions and the strptime formats of the program    *)
(* treat as a unit ("YMD1" is a \d{4}-\d{2}-\d{2} date, "SP" one blank,     *)
(* "ERROR" the five letters ERROR, ...).  Matching, trimming, case         *)
(* conversion and substring search are all computed on these sequences.    *)
(*                                                                         *)
(* A point in time is [t, aware, off]: t is the wall time in hours, aware  *)
(* tells whether the datetime carries a tzinfo, off is its UTC offset.     *)
(*                                                                         *)
(* written is what the file at the export path holds, None while nothing   *)
(* was written to it.                                                      *)
(***************************************************************************)
EXTENDS Integers, Sequences, FiniteSets, TLC

VARIABLES py311, line, lineno, parsed, entries, stats, last, result, loads, written

vars == <<py311, line, lineno, parsed, entries, stats, last, result, loads, written>>

-----------------------------------------------------------------------------
(* Bounds *)

MaxLines == 2

MaxLoads == 2

-----------------------------------------------------------------------------
(* Python values *)

None == [none |-> TRUE]

EmptyStr == <<>>

(* lexeme classes *)
Space == {"SP", "TAB"}

DigitLex == {"N1", "N15", "N192", "N200", "N399", "N400", "N403", "F3", "F7"}

LetterLex == {"ERROR", "error", "FATAL", "fatal", "WARN", "Warn", "warn", "ING", "ing",
              "INFO", "info", "DEBUG", "TRACE", "NOTE", "note",
              "db", "DB", "up", "UP", "Jan", "JAN", "jan", "GET", "get",
              "host", "HOST", "sshd", "SSHD", "my", "MY",
              "apache", "APACHE", "unknown", "UNKNOWN", "T", "t", "Z", "z"}

WordLex == DigitLex \cup LetterLex

(* lexemes that are exactly three word characters *)
W3 == {"Jan", "JAN", "jan", "GET", "get", "N192", "N200", "N399", "N400", "N403", "F3"}

(* lexemes that are one or two digits *)
D12 == {"N1", "N15"}

(* \d{4}-\d{2}-\d{2}; "YMDx" has the shape but is no calendar date *)
YmdLex == {"YMD1", "YMD2", "YMDx"}

(* \d{2}:\d{2}:\d{2}; "HMSx" has the shape but is no time of day *)
HmsLex == {"HMS", "HMSx"}

(* lexemes holding the character '+' *)
PlusLex == {"OFFP", "OFF0", "ISO0"}

(* str.upper() and str.lower() of one lexeme *)
UpperLex(x) ==
    CASE x \in {"error"} -> "ERROR"
      [] x \in {"fatal"} -> "FATAL"
      [] x \in {"warn", "Warn"} -> "WARN"
      [] x \in {"ing"} -> "ING"
      [] x \in {"info"} -> "INFO"
      [] x \in {"note"} -> "NOTE"
      [] x \in {"db"} -> "DB"
      [] x \in {"up"} -> "UP"
      [] x \in {"Jan", "jan"} -> "JAN"
      [] x \in {"get"} -> "GET"
      [] x \in {"host"} -> "HOST"
      [] x \in {"sshd"} -> "SSHD"
      [] x \in {"my"} -> "MY"
      [] x \in {"apache"} -> "APACHE"
      [] x \in {"unknown"} -> "UNKNOWN"
      [] x \in {"t"} -> "T"
      [] x \in {"z"} -> "Z"
      [] OTHER -> x

LowerLex(x) ==
    CASE x \in {"ERROR"} -> "error"
      [] x \in {"FATAL"} -> "fatal"
      [] x \in {"WARN", "Warn"} -> "warn"
      [] x \in {"ING"} -> "ing"
      [] x \in {"INFO"} -> "info"
      [] x \in {"NOTE"} -> "note"
      [] x \in {"DB"} -> "db"
      [] x \in {"UP"} -> "up"
      [] x \in {"Jan", "JAN"} -> "jan"
      [] x \in {"GET"} -> "get"
      [] x \in {"HOST"} -> "host"
      [] x \in {"SSHD"} -> "sshd"
      [] x \in {"MY"} -> "my"
      [] x \in {"APACHE"} -> "apache"
      [] x \in {"UNKNOWN"} -> "unknown"
      [] x \in {"T"} -> "t"
      [] x \in {"Z"} -> "z"
      [] OTHER -> x

Upper(s) == [i \in 1..Len(s) |-> UpperLex(s[i])]

Lower(s) == [i \in 1..Len(s) |-> LowerLex(s[i])]

(* str.strip(): drop leading and trailing whitespace *)
RECURSIVE LStrip(_)
LStrip(s) == IF s # <<>> /\ Head(s) \in Space THEN LStrip(Tail(s)) ELSE s

RECURSIVE RStrip(_)
RStrip(s) ==
    IF s # <<>> /\ s[Len(s)] \in Space THEN RStrip(SubSeq(s, 1, Len(s) - 1)) ELSE s

Strip(s) == RStrip(LStrip(s))

(* x in s, for one lexeme x *)
Has(s, X) == \E i \in 1..Len(s) : s[i] \in X

(* needle in hay (substring) *)
Contains(hay, needle) ==
    \E i \in 0..(Len(hay) - Len(needle)) :
        \A j \in 1..Len(needle) : hay[i + j] = needle[j]

(* last index k >= i - 1 such that s[i..k] lies in class C: a greedy X+ *)
RECURSIVE RunEnd(_, _, _)
RunEnd(s, i, C) ==
    IF i <= Len(s) /\ s[i] \in C THEN RunEnd(s, i + 1, C) ELSE i - 1

At(s, i) == IF i >= 1 /\ i <= Len(s) THEN s[i] ELSE "EOS"

From(s, i) == IF i > Len(s) THEN <<>> ELSE SubSeq(s, i, Len(s))

-----------------------------------------------------------------------------
(* datetime *)

DT(t, aware, off) == [t |-> t, aware |-> aware, off |-> off]

(* the day a date lexeme names, counted from the first day of the logs *)
DayOf(x) == CASE x \in {"YMD1", "DMY1"} -> 1
              [] x \in {"YMD2", "DMY2"} -> 2
              [] OTHER -> 0

(* "HMS" is 10:30:25, "EOD" is 23:59:59, "MIDNIGHT" is 00:00:00 *)
HourOf(x) == CASE x = "HMS" -> 10
               [] x = "EOD" -> 23
               [] OTHER -> 0

(* strptime fills a missing year with 1900: long before the first day *)
Day1900 == 0 - 1000

WallTime(day, hms) == day * 24 + HourOf(hms)

ValidYmd == {"YMD1", "YMD2"}

ValidDmy == {"DMY1", "DMY2"}

ValidHms == {"HMS"}

(* %z of strptime: +HHMM, -HHMM, +HH:MM or Z *)
ZLex == {"OFFP", "OFFM", "OFF0", "ISO0", "Z"}

OffsetOf(x) == CASE x = "OFFP" -> 2
                 [] x = "OFFM" -> 0 - 7
                 [] OTHER -> 0

(* %f of strptime: one to six digits *)
FracLex == DigitLex \ {"F7"}

(* the parts of s that stand where the format has one blank (\s+) *)
SpEnd(s, i) == RunEnd(s, i, Space)

TimestampFormats == 1..7

(* datetime.datetime.strptime(s, timestamp_formats[f]); None is ValueError *)
Strptime(s, f) ==
    CASE f \in {1, 2, 3} ->
           LET e == SpEnd(s, 2)
               sep == IF f = 2 THEN "DOT" ELSE "COMMA"
           IN  IF /\ At(s, 1) \in ValidYmd
                  /\ e >= 2
                  /\ At(s, e + 1) \in ValidHms
                  /\ \/ f = 1 /\ Len(s) = e + 1
                     \/ /\ f # 1
                        /\ Len(s) = e + 3
                        /\ s[e + 2] = sep
                        /\ s[e + 3] \in FracLex
               THEN DT(WallTime(DayOf(s[1]), s[e + 1]), FALSE, 0)
               ELSE None
      [] f = 4 ->
           LET e == SpEnd(s, 4)
           IN  IF /\ At(s, 1) \in ValidDmy
                  /\ At(s, 2) = "COLON"
                  /\ At(s, 3) \in ValidHms
                  /\ e >= 4
                  /\ Len(s) = e + 1
                  /\ s[e + 1] \in ZLex
               THEN DT(WallTime(DayOf(s[1]), s[3]), TRUE, OffsetOf(s[e + 1]))
               ELSE None
      [] f = 5 ->
           LET e == SpEnd(s, 2)
               g == SpEnd(s, e + 2)
           IN  IF /\ UpperLex(At(s, 1)) = "JAN"
                  /\ e >= 2
                  /\ At(s, e + 1) \in D12
                  /\ g >= e + 2
                  /\ Len(s) = g + 1
                  /\ s[g + 1] \in ValidHms
               THEN DT(WallTime(Day1900, s[g + 1]), FALSE, 0)
               ELSE None
      [] f \in {6, 7} ->
           IF /\ At(s, 1) \in ValidYmd
              /\ UpperLex(At(s, 2)) = "T"
              /\ At(s, 3) \in ValidHms
              /\ \/ f = 6 /\ Len(s) = 3
                 \/ /\ f = 7
                    /\ Len(s) = 6
                    /\ s[4] = "DOT"
                    /\ s[5] \in FracLex
                    /\ UpperLex(s[6]) = "Z"
           THEN DT(WallTime(DayOf(s[1]), s[3]), FALSE, 0)
           ELSE None

(* fmt.endswith('%z') *)
EndsWithZ(f) == f = 4

(* timestamp_str.replace('Z', '+00:00') *)
ReplaceZ(s) == [i \in 1..Len(s) |-> IF s[i] = "Z" THEN "ISO0" ELSE s[i]]

(* one character between the date and the time *)
SepLex == Space \cup {"T", "t", "Z", "z", "DOT", "COMMA", "COLON", "DASH", "LB", "RB", "HASH"}

(* UTC offsets that fromisoformat reads *)
IsoTz(lenient) == IF lenient THEN {"OFFP", "OFFM", "OFF0", "ISO0"} ELSE {"ISO0"}

(* datetime.datetime.fromisoformat(s); None is ValueError.  The interpreter *)
(* decides how much of ISO 8601 it reads: up to Python 3.10 only what       *)
(* isoformat() writes, from 3.11 on also ',' fractions of any length,      *)
(* offsets without ':' and a blank before the offset.                      *)
FromIsoformat(s, lenient) ==
    LET r == From(s, 4)
        frac == IF lenient THEN DigitLex ELSE {"N192", "N200", "N399", "N400", "N403", "F3"}
        point == IF lenient THEN {"DOT", "COMMA"} ELSE {"DOT"}
        naive == \/ r = <<>>
                 \/ Len(r) = 2 /\ r[1] \in point /\ r[2] \in frac
        tzAt == CASE Len(r) = 1 /\ r[1] \in IsoTz(lenient) -> 1
                  [] Len(r) = 3 /\ r[1] \in point /\ r[2] \in frac
                       /\ r[3] \in IsoTz(lenient) -> 3
                  [] lenient /\ Len(r) = 2 /\ r[1] \in Space
                       /\ r[2] \in IsoTz(lenient) -> 2
                  [] lenient /\ Len(r) = 4 /\ r[1] \in point /\ r[2] = "F7"
                       /\ r[3] \in Space /\ r[4] \in IsoTz(lenient) -> 4
                  [] OTHER -> 0
    IN  IF ~ (At(s, 1) \in ValidYmd /\ At(s, 2) \in SepLex /\ At(s, 3) \in ValidHms)
        THEN None
        ELSE IF naive THEN DT(WallTime(DayOf(s[1]), s[3]), FALSE, 0)
        ELSE IF tzAt > 0 THEN DT(WallTime(DayOf(s[1]), s[3]), TRUE, OffsetOf(r[tzAt]))
        ELSE None

(* the loop of parse_timestamp from format f on; the string it tries is    *)
(* the one the earlier rounds left behind                                  *)
RECURSIVE TryFormats(_, _, _)
TryFormats(s, f, lenient) ==
    IF f > 7
    THEN FromIsoformat(ReplaceZ(s), lenient)
    ELSE LET s2 == IF EndsWithZ(f) /\ ~ Has(s, PlusLex) /\ ~ Has(s, {"Z"})
                   THEN s \o <<"SP", "OFF0">>
                   ELSE s
             r == Strptime(s2, f)
         IN  IF r # None THEN r ELSE TryFormats(s2, f + 1, lenient)

parse_timestamp(timestamp_str, lenient) == TryFormats(Strip(timestamp_str), 1, lenient)

-----------------------------------------------------------------------------
(* LogEntry *)

(* LogEntry.__init__: the level is stored in upper case *)
LogEntry(timestamp, level, message, source, raw_line, line_number) ==
    [timestamp |-> timestamp, level |-> Upper(level), message |-> message,
     source |-> source, raw_line |-> raw_line, line_number |-> line_number]

-----------------------------------------------------------------------------
(* LogParser.patterns.  Each operator is pattern.match(line): the match is *)
(* anchored at the start of the line and may stop before its end.          *)
(* NoMatch stands for a failed match, groups for match.groupdict().        *)

NoMatch == [ok |-> FALSE]

NonSpaceLex == WordLex \cup {"IPREST", "V6", "DOT", "COMMA", "COLON", "DASH", "LB", "RB",
                             "HASH", "URL", "REQ"} \cup YmdLex \cup HmsLex

\* ip - - [timestamp] "method url protocol" status size, where ip is
\* \d+\.\d+\.\d+\.\d+, timestamp is [^\]]+, status is \d+ and size is \d+ or -.
\* "IPREST" is the .\d+.\d+.\d+ of an address, "DASHES" is ' - - ', "REQ" is
\* the quoted request "GET <URL> HTTP/1.1".
apache_access(l) ==
    LET close == CHOOSE k \in 5..(Len(l) + 1) :
                     /\ k = Len(l) + 1 \/ l[k] = "RB"
                     /\ \A j \in 5..(k - 1) : l[j] # "RB"
    IN  IF /\ At(l, 1) \in DigitLex
           /\ At(l, 2) = "IPREST"
           /\ At(l, 3) = "DASHES"
           /\ At(l, 4) = "LB"
           /\ close > 5
           /\ At(l, close) = "RB"
           /\ At(l, close + 1) = "SP"
           /\ At(l, close + 2) = "REQ"
           /\ At(l, close + 3) = "SP"
           /\ At(l, close + 4) \in DigitLex
           /\ At(l, close + 5) = "SP"
           /\ At(l, close + 6) \in DigitLex \cup {"DASH"}
        THEN [ok |-> TRUE, timestamp |-> SubSeq(l, 5, close - 1),
              method |-> <<"GET">>, url |-> <<"URL">>, status |-> <<l[close + 4]>>]
        ELSE NoMatch

\* timestamp, blank, \[? level \]? \s* :? \s* message, where timestamp is
\* \d{4}-\d{2}-\d{2} \d{2}:\d{2}:\d{2} [,.]? \d* , level is \w+ and message the rest.
application_log(l) ==
    LET a == IF At(l, 4) \in {"DOT", "COMMA"} THEN 5 ELSE 4
        b == RunEnd(l, a, DigitLex) + 1
        c == IF At(l, b + 1) = "LB" THEN b + 2 ELSE b + 1
        d == RunEnd(l, c, WordLex)
        e == IF At(l, d + 1) = "RB" THEN d + 2 ELSE d + 1
        f == RunEnd(l, e, Space) + 1
        g == IF At(l, f) = "COLON" THEN f + 1 ELSE f
        h == RunEnd(l, g, Space) + 1
    IN  IF /\ At(l, 1) \in YmdLex
           /\ At(l, 2) = "SP"
           /\ At(l, 3) \in HmsLex
           /\ At(l, b) = "SP"
           /\ d >= c
        THEN [ok |-> TRUE, timestamp |-> SubSeq(l, 1, b - 1),
              level |-> SubSeq(l, c, d), message |-> From(l, h)]
        ELSE NoMatch

\* timestamp hostname source pid? ': ' message, where timestamp is
\* \w{3} \d{1,2} \d{2}:\d{2}:\d{2}, hostname and source are \w+, pid is \[\d+\].
system_log(l) ==
    LET a == RunEnd(l, 7, WordLex)
        b == RunEnd(l, a + 2, WordLex)
        c == IF At(l, b + 1) = "LB" /\ At(l, b + 2) \in DigitLex /\ At(l, b + 3) = "RB"
             THEN b + 4 ELSE b + 1
    IN  IF /\ At(l, 1) \in W3
           /\ At(l, 2) = "SP"
           /\ At(l, 3) \in D12
           /\ At(l, 4) = "SP"
           /\ At(l, 5) \in HmsLex
           /\ At(l, 6) = "SP"
           /\ a >= 7
           /\ At(l, a + 1) = "SP"
           /\ b >= a + 2
           /\ At(l, c) = "COLON"
           /\ At(l, c + 1) = "SP"
        THEN [ok |-> TRUE, timestamp |-> SubSeq(l, 1, 5),
              source |-> SubSeq(l, a + 2, b), message |-> From(l, c + 2)]
        ELSE NoMatch

\* timestamp server_ip method uri query port username client_ip user_agent
\* referer status substatus win32_status time_taken, where timestamp is
\* \d{4}-\d{2}-\d{2} \d{2}:\d{2}:\d{2} and server_ip is \S+.  "IISTAIL" is
\* everything from the blank before the method to the time taken.
iis_log(l) ==
    LET a == RunEnd(l, 5, NonSpaceLex)
    IN  IF /\ At(l, 1) \in YmdLex
           /\ At(l, 2) = "SP"
           /\ At(l, 3) \in HmsLex
           /\ At(l, 4) = "SP"
           /\ a >= 5
           /\ At(l, a + 1) = "IISTAIL"
        THEN [ok |-> TRUE, timestamp |-> SubSeq(l, 1, 3)]
        ELSE NoMatch

(* the dict keeps insertion order *)
PatternNames == <<"apache_access", "application_log", "system_log", "iis_log">>

Pattern(name, l) ==
    CASE name = "apache_access" -> apache_access(l)
      [] name = "application_log" -> application_log(l)
      [] name = "system_log" -> system_log(l)
      [] name = "iis_log" -> iis_log(l)

(* groups.get(key, default) *)
Get(groups, key, default) == IF key \in DOMAIN groups THEN groups[key] ELSE default

(* int(status) *)
IntOf(x) == CASE x = "N1" -> 1
              [] x = "N15" -> 15
              [] x = "N192" -> 192
              [] x = "N200" -> 200
              [] x = "N399" -> 399
              [] x = "N400" -> 400
              [] x = "N403" -> 403
              [] x = "F3" -> 123
              [] x = "F7" -> 1234567

Keywords == {"ERROR", "WARN", "INFO", "DEBUG", "TRACE", "FATAL"}

\* the same search without re.IGNORECASE
fallback_match_exact(l) ==
    IF \E i \in 1..Len(l) : l[i] \in Keywords
    THEN CHOOSE i \in 1..Len(l) :
             /\ l[i] \in Keywords
             /\ \A j \in 1..(i - 1) : l[j] \notin Keywords
    ELSE 0

\* re.search of ERROR|WARN|INFO|DEBUG|TRACE|FATAL in line, ignoring case:
\* the position of the leftmost occurrence, 0 when there is none
fallback_match(l) ==
    IF \E i \in 1..Len(l) : UpperLex(l[i]) \in Keywords
    THEN CHOOSE i \in 1..Len(l) :
             /\ UpperLex(l[i]) \in Keywords
             /\ \A j \in 1..(i - 1) : UpperLex(l[j]) \notin Keywords
    ELSE 0

(* the entry a matching pattern makes *)
FromMatch(name, groups, l, line_number, now, lenient) ==
    LET parsedTs == parse_timestamp(Get(groups, "timestamp", EmptyStr), lenient)
        timestamp == IF parsedTs = None THEN now ELSE parsedTs
    IN  CASE name = "apache_access" ->
               LogEntry(timestamp,
                        IF IntOf(groups.status[1]) < 400 THEN <<"INFO">> ELSE <<"ERROR">>,
                        groups.method \o <<"SP">> \o groups.url \o <<"SP", "DASH", "SP">>
                            \o groups.status,
                        <<"apache">>, l, line_number)
          [] name = "system_log" ->
               LogEntry(timestamp, <<"INFO">>, Get(groups, "message", EmptyStr),
                        Get(groups, "source", EmptyStr), l, line_number)
          [] OTHER ->
               LogEntry(timestamp, Get(groups, "level", <<"INFO">>),
                        Get(groups, "message", EmptyStr),
                        Get(groups, "source", EmptyStr), l, line_number)

RECURSIVE TryPatterns(_, _, _, _, _)
TryPatterns(i, l, line_number, now, lenient) ==
    IF i > Len(PatternNames)
    THEN LET k == fallback_match(l)
         IN  IF k > 0
             THEN LogEntry(now, <<l[k]>>, l, <<"unknown">>, l, line_number)
             ELSE LogEntry(now, <<"INFO">>, l, <<"unknown">>, l, line_number)
    ELSE LET m == Pattern(PatternNames[i], l)
         IN  IF m.ok
             THEN FromMatch(PatternNames[i], m, l, line_number, now, lenient)
             ELSE TryPatterns(i + 1, l, line_number, now, lenient)

(* parse_line as its docstring has it: None when parsing fails *)
parse_line_or_none(ln, line_number, now, lenient) ==
    LET l == Strip(ln)
    IN  IF l = <<>> \/ l[1] = "HASH"
        THEN None
        ELSE IF (\A i \in 1..Len(PatternNames) : ~ Pattern(PatternNames[i], l).ok)
                /\ fallback_match(l) = 0
        THEN None
        ELSE TryPatterns(1, l, line_number, now, lenient)

(* LogParser.parse_line; now is what datetime.datetime.now() returns *)
parse_line(ln, line_number, now, lenient) ==
    LET l == Strip(ln)
    IN  IF l = <<>> \/ l[1] = "HASH"
        THEN None
        ELSE TryPatterns(1, l, line_number, now, lenient)

-----------------------------------------------------------------------------
(* comparing datetimes *)

(* a < b, a <= b, ... raise TypeError when exactly one of them is aware *)
Comparable(a, b) == a.aware = b.aware

(* what the comparison orders by: the UTC time of an aware datetime, the   *)
(* wall time of a naive one                                                *)
Instant(a) == IF a.aware THEN a.t - a.off ELSE a.t

Le(a, b) == Instant(a) <= Instant(b)

Ge(a, b) == Instant(a) >= Instant(b)

(* min(ts) and max(ts) of a non-empty list: both keep the first of equals  *)
RECURSIVE MinFrom(_, _, _)
MinFrom(ts, i, best) ==
    IF i > Len(ts) THEN best
    ELSE MinFrom(ts, i + 1, IF Instant(ts[i]) < Instant(best) THEN ts[i] ELSE best)

RECURSIVE MaxFrom(_, _, _)
MaxFrom(ts, i, best) ==
    IF i > Len(ts) THEN best
    ELSE MaxFrom(ts, i + 1, IF Instant(ts[i]) > Instant(best) THEN ts[i] ELSE best)

(* min and max compare every element with the best so far, so they raise  *)
(* as soon as the list mixes aware and naive datetimes                     *)
MinMaxRaises(ts) == \E i, j \in 1..Len(ts) : ~ Comparable(ts[i], ts[j])

(* datetime.isoformat() *)
YmdOfDay(d) == CASE d = 1 -> "YMD1" [] d = 2 -> "YMD2" [] d = 3 -> "YMD3" [] OTHER -> "YMD0"

IsoOffset(off) == CASE off = 0 -> "ISO0" [] off = 2 -> "ISOP" [] OTHER -> "ISOM"

isoformat(a) ==
    <<YmdOfDay(a.t \div 24), "T", "HMS">> \o (IF a.aware THEN <<IsoOffset(a.off)>> ELSE <<>>)

-----------------------------------------------------------------------------
(* LogAnalyzer *)

EmptyDict == [k \in {} |-> 0]

(* Counter over the set of keys: every key counted once *)
CounterOfSet(ks) == [k \in {ks[i] : i \in 1..Len(ks)} |-> 1]

(* Counter(ks), as a dict *)
Counter(ks) ==
    [k \in {ks[i] : i \in 1..Len(ks)} |-> Cardinality({i \in 1..Len(ks) : ks[i] = k})]

(* ts.date() and ts.hour *)
DateOf(ts) == YmdOfDay(ts.t \div 24)

HourOfDay(ts) == ts.t % 24

IsError(e) == e.level \in {<<"ERROR">>, <<"FATAL">>}

IsWarning(e) == e.level = <<"WARN", "ING">>

(* x / n, a share of one and not of a hundred *)
RatePerOne(x, n) == [num |-> x, den |-> n]

(* x / n * 100, kept as the fraction 100 x / n *)
Rate(x, n) == [num |-> 100 * x, den |-> n]

(* top[:10] *)
First10(s) == IF Len(s) > 10 THEN SubSeq(s, 1, 10) ELSE s

Messages(es) == [i \in 1..Len(es) |-> es[i].message]

Timestamps(es) == [i \in 1..Len(es) |-> es[i].timestamp]

(* the dict generate_statistics builds from a non-empty list *)
Statistics(es) ==
    LET error_entries == SelectSeq(es, IsError)
        warning_entries == SelectSeq(es, IsWarning)
        timestamps == Timestamps(es)
    IN  [total_entries |-> Len(es),
         level_distribution |-> Counter([i \in 1..Len(es) |-> es[i].level]),
         source_distribution |-> Counter([i \in 1..Len(es) |-> es[i].source]),
         date_distribution |-> Counter([i \in 1..Len(es) |-> DateOf(timestamps[i])]),
         hourly_distribution |-> Counter([i \in 1..Len(es) |-> HourOfDay(timestamps[i])]),
         error_count |-> Len(error_entries),
         warning_count |-> Len(warning_entries),
         error_rate |-> Rate(Len(error_entries), Len(es)),
         warning_rate |-> Rate(Len(warning_entries), Len(es)),
         date_range |-> [start |-> isoformat(MinFrom(timestamps, 2, timestamps[1])),
                         end |-> isoformat(MaxFrom(timestamps, 2, timestamps[1]))],
         top_error_messages |-> First10(Messages(error_entries)),
         top_warning_messages |-> First10(Messages(warning_entries))]

(* generate_statistics on the list es while self.stats is old: the status  *)
(* of the call and the self.stats it leaves                                *)
generate_statistics(es, old) ==
    IF es = <<>>
    THEN [status |-> "ok", stats |-> EmptyDict]
    ELSE IF MinMaxRaises(Timestamps(es))
    THEN [status |-> "TypeError", stats |-> old]
    ELSE [status |-> "ok", stats |-> Statistics(es)]

(* the loop numbering the entries it makes instead of the lines it reads *)
RECURSIVE ReadLinesCounted(_, _, _, _, _)
ReadLinesCounted(lines, n, acc, now, lenient) ==
    IF n > Len(lines) THEN acc
    ELSE LET entry == parse_line(lines[n], acc.parsed_count + 1, now, lenient)
         IN  ReadLinesCounted(lines, n + 1,
                              IF entry # None
                              THEN [entries |-> Append(acc.entries, entry),
                                    total_lines |-> acc.total_lines + 1,
                                    parsed_count |-> acc.parsed_count + 1]
                              ELSE [acc EXCEPT !.total_lines = @ + 1],
                              now, lenient)

(* the loop of load_file over the lines from line number n on; acc holds  *)
(* self.entries, total_lines and parsed_count                              *)
RECURSIVE ReadLines(_, _, _, _, _)
ReadLines(lines, n, acc, now, lenient) ==
    IF n > Len(lines) THEN acc
    ELSE LET entry == parse_line(lines[n], n, now, lenient)
         IN  ReadLines(lines, n + 1,
                       IF entry # None
                       THEN [entries |-> Append(acc.entries, entry),
                             total_lines |-> acc.total_lines + 1,
                             parsed_count |-> acc.parsed_count + 1]
                       ELSE [acc EXCEPT !.total_lines = @ + 1],
                       now, lenient)

(* a load that keeps what the list held *)
NotCleared(old) == old

(* self.entries.clear() *)
Cleared(old) == <<>>

(* what the file system holds at the path given to load_file *)
Missing == [kind |-> "missing", lines |-> <<>>]

Unreadable == [kind |-> "unreadable", lines |-> <<>>]

TextFile(lines) == [kind |-> "text", lines |-> lines]

NoCriteria == [start_date |-> None, end_date |-> None, levels |-> None,
               keywords |-> None, source |-> None]

Call(op, file, criteria, now, status, value) ==
    [op |-> op, file |-> file, criteria |-> criteria, now |-> now,
     status |-> status, value |-> value]

NoCall == Call("none", Missing, NoCriteria, None, "none", <<>>)

(* a list returned by filter_entries that the caller still holds; alias    *)
(* tells whether it is the very list object self.entries                   *)
Held(items, alias) == [items |-> items, alias |-> alias]

(* the held list after self.entries became es *)
Seen(held, es) == IF held.alias THEN Held(es, TRUE) ELSE held

(* an Optional[List] or Optional[str] argument that is not None *)
Some(v) == [some |-> v]

(* the truth value Python gives such an argument in "if argument:" *)
Truthy(x) == x # None /\ x.some # <<>>

(* the stages of filter_entries, each applied to the list the stage before *)
(* left; a stage raises TypeError when it compares an aware with a naive   *)
(* datetime                                                                *)
ByStart(es, c) ==
    IF c.start_date # None
    THEN LET keep(e) == Ge(e.timestamp, c.start_date) IN SelectSeq(es, keep)
    ELSE es

StartRaises(es, c) ==
    c.start_date # None /\ \E i \in 1..Len(es) : ~ Comparable(es[i].timestamp, c.start_date)

ByEnd(es, c) ==
    IF c.end_date # None
    THEN LET keep(e) == Le(e.timestamp, c.end_date) IN SelectSeq(es, keep)
    ELSE es

EndRaises(es, c) ==
    c.end_date # None /\ \E i \in 1..Len(es) : ~ Comparable(es[i].timestamp, c.end_date)

(* the level stage without upper-casing the levels asked for *)
ByLevelsAsGiven(es, c) ==
    IF Truthy(c.levels)
    THEN LET keep(e) == \E i \in 1..Len(c.levels.some) : e.level = c.levels.some[i]
         IN  SelectSeq(es, keep)
    ELSE es

ByLevels(es, c) ==
    IF Truthy(c.levels)
    THEN LET levels_upper == [i \in 1..Len(c.levels.some) |-> Upper(c.levels.some[i])]
             keep(e) == \E i \in 1..Len(levels_upper) : e.level = levels_upper[i]
         IN  SelectSeq(es, keep)
    ELSE es

(* the keyword stage collecting the matches of one keyword after the other *)
RECURSIVE PerKeyword(_, _, _)
PerKeyword(es, kws, i) ==
    IF i > Len(kws) THEN <<>>
    ELSE LET keep(e) == Contains(Upper(e.message), Upper(kws[i]))
         IN  SelectSeq(es, keep) \o PerKeyword(es, kws, i + 1)

ByKeywordsEach(es, c) ==
    IF Truthy(c.keywords) THEN PerKeyword(es, c.keywords.some, 1) ELSE es

ByKeywords(es, c) ==
    IF Truthy(c.keywords)
    THEN LET keep(e) == \E i \in 1..Len(c.keywords.some) :
                            Contains(Upper(e.message), Upper(c.keywords.some[i]))
         IN  SelectSeq(es, keep)
    ELSE es

BySource(es, c) ==
    IF Truthy(c.source)
    THEN LET keep(e) == Contains(Lower(e.source), Lower(c.source.some))
         IN  SelectSeq(es, keep)
    ELSE es

(* filtered is still self.entries when no stage has built a new list *)
SameList(c) ==
    /\ c.start_date = None
    /\ c.end_date = None
    /\ ~ Truthy(c.levels)
    /\ ~ Truthy(c.keywords)
    /\ ~ Truthy(c.source)

(* filter_entries on the list es: the status of the call and the list it   *)
(* returns                                                                 *)
filter_entries(es, c) ==
    IF StartRaises(es, c)
    THEN [status |-> "TypeError", value |-> Held(<<>>, FALSE)]
    ELSE IF EndRaises(ByStart(es, c), c)
    THEN [status |-> "TypeError", value |-> Held(<<>>, FALSE)]
    ELSE [status |-> "ok",
          value |-> Held(BySource(ByKeywords(ByLevels(ByEnd(ByStart(es, c), c), c), c), c),
                         SameList(c))]

-----------------------------------------------------------------------------
(* export *)

(* str(a) of a datetime: isoformat with a blank for the 'T' *)
StrOfDatetime(a) ==
    <<YmdOfDay(a.t \div 24), "SP", "HMS">> \o (IF a.aware THEN <<IsoOffset(a.off)>> ELSE <<>>)

(* LogEntry.__str__ *)
LogEntryStr(e) ==
    <<"LB">> \o StrOfDatetime(e.timestamp) \o <<"RB", "SP">> \o e.level \o <<"COLON", "SP">>
        \o e.message

(* a dictionary that holds str(self.timestamp) for the timestamp *)
to_dict_str(e) ==
    [timestamp |-> StrOfDatetime(e.timestamp), level |-> e.level, message |-> e.message,
     source |-> e.source, raw_line |-> e.raw_line, line_number |-> e.line_number]

(* LogEntry.to_dict *)
to_dict(e) ==
    [timestamp |-> isoformat(e.timestamp), level |-> e.level, message |-> e.message,
     source |-> e.source, raw_line |-> e.raw_line, line_number |-> e.line_number]

(* json writes a str between quotes, with a backslash before every '"'    *)
(* and \t for a tab; "REQ" holds two '"'                                   *)
JsonEscapeLex(x) == CASE x = "REQ" -> "REQ_BACKSLASHED"
                      [] x = "TAB" -> "BACKSLASH_T"
                      [] OTHER -> x

JsonUnescapeLex(x) == CASE x = "REQ_BACKSLASHED" -> "REQ"
                        [] x = "BACKSLASH_T" -> "TAB"
                        [] OTHER -> x

JsonStr(s) == [str |-> [i \in 1..Len(s) |-> JsonEscapeLex(s[i])]]

StrOfJson(j) == [i \in 1..Len(j.str) |-> JsonUnescapeLex(j.str[i])]

(* json writes an int in decimal digits *)
JsonInt(n) == [digits |-> n]

IntOfJson(j) == j.digits

(* a dict is written with every key as a str *)
JsonStrCounts(d) ==
    [k \in {JsonStr(x) : x \in DOMAIN d} |-> d[CHOOSE x \in DOMAIN d : JsonStr(x) = k]]

JsonIntCounts(d) ==
    [k \in {JsonInt(x) : x \in DOMAIN d} |-> d[CHOOSE x \in DOMAIN d : JsonInt(x) = k]]

JsonStrs(q) == [i \in 1..Len(q) |-> JsonStr(q[i])]

(* self.stats as json.dump writes it *)
JsonStats(st) ==
    IF st = EmptyDict THEN EmptyDict
    ELSE [total_entries |-> JsonInt(st.total_entries),
          level_distribution |-> JsonStrCounts(st.level_distribution),
          source_distribution |-> JsonStrCounts(st.source_distribution),
          date_distribution |-> st.date_distribution,
          hourly_distribution |-> JsonIntCounts(st.hourly_distribution),
          error_count |-> JsonInt(st.error_count),
          warning_count |-> JsonInt(st.warning_count),
          error_rate |-> st.error_rate,
          warning_rate |-> st.warning_rate,
          date_range |-> st.date_range,
          top_error_messages |-> JsonStrs(st.top_error_messages),
          top_warning_messages |-> JsonStrs(st.top_warning_messages)]

JsonEntry(d) ==
    [timestamp |-> JsonStr(d.timestamp), level |-> JsonStr(d.level),
     message |-> JsonStr(d.message), source |-> JsonStr(d.source),
     raw_line |-> JsonStr(d.raw_line), line_number |-> JsonInt(d.line_number)]

EntryOfJson(j) ==
    [timestamp |-> StrOfJson(j.timestamp), level |-> StrOfJson(j.level),
     message |-> StrOfJson(j.message), source |-> StrOfJson(j.source),
     raw_line |-> StrOfJson(j.raw_line), line_number |-> IntOfJson(j.line_number)]

(* the dictionary data of the 'json' branch *)
JsonData(es, st, now) ==
    [metadata |-> [export_time |-> isoformat(now), entry_count |-> Len(es),
                   statistics |-> st],
     entries |-> [i \in 1..Len(es) |-> to_dict(es[i])]]

(* json.dump(data, f, indent=2, ensure_ascii=False): the text of the file *)
json_dump(data) ==
    [metadata |-> [export_time |-> JsonStr(data.metadata.export_time),
                   entry_count |-> JsonInt(data.metadata.entry_count),
                   statistics |-> JsonStats(data.metadata.statistics)],
     entries |-> [i \in 1..Len(data.entries) |-> JsonEntry(data.entries[i])]]

(* json.load(f) of such a text, the statistics left as they are written *)
json_load(text) ==
    [metadata |-> [export_time |-> StrOfJson(text.metadata.export_time),
                   entry_count |-> IntOfJson(text.metadata.entry_count),
                   statistics |-> text.metadata.statistics],
     entries |-> [i \in 1..Len(text.entries) |-> EntryOfJson(text.entries[i])]]

(* csv.writer puts a field between quotes, its '"' doubled, when it holds  *)
(* a comma or a '"'                                                        *)
CsvField(s) ==
    IF Has(s, {"REQ", "COMMA"})
    THEN <<"QUOTE">> \o [i \in 1..Len(s) |-> IF s[i] = "REQ" THEN "REQ_DOUBLED" ELSE s[i]]
             \o <<"QUOTE">>
    ELSE s

(* str(n) of an int *)
StrOfInt(n) == [digits |-> n]

CsvHeader == <<"Timestamp", "Level", "Source", "Message", "Line Number">>

(* the rows of the 'csv' branch *)
CsvRows(es) ==
    <<CsvHeader>> \o
    [i \in 1..Len(es) |->
        <<CsvField(isoformat(es[i].timestamp)), CsvField(es[i].level),
          CsvField(es[i].source), CsvField(es[i].message), StrOfInt(es[i].line_number)>>]

(* one line of the report; the count is written in decimal digits *)
TxtLine(text) == [text |-> text]

(* the lines of the 'txt' branch *)
TxtLines(es, now) ==
    <<TxtLine(<<"Log Analysis Report">>),
      TxtLine(<<"Generated: ">> \o StrOfDatetime(now)),
      [text |-> <<"Total Entries: ">>, count |-> Len(es)],
      TxtLine(<<>>)>>
        \o [i \in 1..Len(es) |-> TxtLine(LogEntryStr(es[i]))]

(* format_type.lower() *)
LowerFormat(x) == CASE x = "JSON" -> "json"
                    [] x = "CSV" -> "csv"
                    [] x = "TXT" -> "txt"
                    [] x = "LOG" -> "log"
                    [] OTHER -> x

(* what open(output_path, 'w') and the writes after it do: "writable" lets *)
(* both through, "unopenable" fails in open and leaves the file alone,     *)
(* "failing" opens, which empties the file, and fails in a write           *)
Targets == {"writable", "unopenable", "failing"}

Target(kind) == [kind |-> kind, lines |-> <<>>]

(* a file that a failed write left behind *)
Partial == [format |-> "partial"]

(* what the branch of format ft writes, None when there is no such branch *)
Content(ft, es, st, now) ==
    CASE ft = "json" -> [format |-> "json", text |-> json_dump(JsonData(es, st, now))]
      [] ft = "csv" -> [format |-> "csv", rows |-> CsvRows(es)]
      [] ft = "txt" -> [format |-> "txt", lines |-> TxtLines(es, now)]
      [] OTHER -> None

(* export_results without its except clause: the OSError reaches the caller *)
export_results_uncaught(target, old, es, format_type, st, now) ==
    LET content == Content(LowerFormat(format_type), es, st, now)
    IN  IF content = None
        THEN [status |-> "ok", returned |-> TRUE, written |-> old]
        ELSE IF target = "unopenable"
        THEN [status |-> "OSError", returned |-> FALSE, written |-> old]
        ELSE IF target = "failing"
        THEN [status |-> "OSError", returned |-> FALSE, written |-> Partial]
        ELSE [status |-> "ok", returned |-> TRUE, written |-> content]

(* LogAnalyzer.export_results(output_path, entries, format_type) while the *)
(* file at output_path holds old: whether the call raised, what it         *)
(* returned and what the file holds afterwards                             *)
export_results(target, old, es, format_type, st, now) ==
    LET content == Content(LowerFormat(format_type), es, st, now)
    IN  IF content = None
        THEN [status |-> "ok", returned |-> TRUE, written |-> old]
        ELSE IF target = "unopenable"
        THEN [status |-> "ok", returned |-> FALSE, written |-> old]
        ELSE IF target = "failing"
        THEN [status |-> "ok", returned |-> FALSE, written |-> Partial]
        ELSE [status |-> "ok", returned |-> TRUE, written |-> content]

-----------------------------------------------------------------------------
(* LogAnalyzerGUI.  filtered_entries is the list held by the caller of     *)
(* filter_entries, the variable result.                                    *)

(* the check boxes of setup_gui, all of them checked at the start *)
GuiLevels == << <<"ERROR">>, <<"WARN", "ING">>, <<"INFO">>, <<"DEBUG">> >>

(* datetime.datetime.strptime(text, "%Y-%m-%d"); None is ValueError *)
StrptimeDate(text) ==
    IF Len(text) = 1 /\ text[1] \in ValidYmd
    THEN DT(WallTime(DayOf(text[1]), "MIDNIGHT"), FALSE, 0)
    ELSE None

(* end_date.replace(hour=23, minute=59, second=59) *)
EndOfDay(d) == DT(WallTime(d.t \div 24, "EOD"), d.aware, d.off)

(* text.split(',') *)
RECURSIVE SplitComma(_, _, _)
SplitComma(text, i, part) ==
    IF i > Len(text) THEN <<part>>
    ELSE IF text[i] = "COMMA" THEN <<part>> \o SplitComma(text, i + 1, <<>>)
    ELSE SplitComma(text, i + 1, Append(part, text[i]))

(* [kw.strip() for kw in text.split(',') if kw.strip()], [] for no text *)
KeywordsOf(text) ==
    IF text = <<>> THEN <<>>
    ELSE LET parts == SplitComma(text, 1, <<>>)
             stripped == [i \in 1..Len(parts) |-> Strip(parts[i])]
             nonEmpty(kw) == kw # <<>>
         IN  SelectSeq(stripped, nonEmpty)

(* the arguments apply_filters makes of the widgets w, once both dates are *)
(* read                                                                    *)
CriteriaOf(w) ==
    LET isChecked(level) == level \in w.checked
    IN  [start_date |-> IF w.start_date # <<>> THEN StrptimeDate(w.start_date) ELSE None,
         end_date |-> IF w.end_date # <<>> THEN EndOfDay(StrptimeDate(w.end_date)) ELSE None,
         levels |-> Some(SelectSeq(GuiLevels, isChecked)),
         keywords |-> Some(KeywordsOf(w.keywords)),
         source |-> IF Strip(w.source) # <<>> THEN Some(Strip(w.source)) ELSE None]

(* a date field holds text that strptime rejects *)
BadDate(w) ==
    \/ w.start_date # <<>> /\ StrptimeDate(w.start_date) = None
    \/ w.end_date # <<>> /\ StrptimeDate(w.end_date) = None

(* LogAnalyzerGUI.apply_filters while analyzer.entries is es and           *)
(* filtered_entries is held: how the call ends and the filtered_entries it *)
(* leaves.  A ValueError is caught and shown, a TypeError of               *)
(* filter_entries leaves the method.                                       *)
apply_filters(es, held, w) ==
    IF es = <<>>
    THEN [status |-> "ok", filtered |-> held]
    ELSE IF BadDate(w)
    THEN [status |-> "ValueError", filtered |-> held]
    ELSE LET r == filter_entries(es, CriteriaOf(w))
         IN  IF r.status = "ok"
             THEN [status |-> "ok", filtered |-> r.value]
             ELSE [status |-> r.status, filtered |-> held]

-----------------------------------------------------------------------------
(* Inputs *)

(* what datetime.datetime.now() may return: a naive wall time *)
Nows == {DT(WallTime(d, "HMS"), FALSE, 0) : d \in {2, 3}}

(* the wall time while files are loaded one after another *)
LoadNows == {DT(WallTime(3, "HMS"), FALSE, 0)}

Blank(l) == <<"SP">> \o l \o <<"TAB">>

(* timestamps of application-log shape *)
AppStamps ==
    {<<y, "SP", h>> \o frac :
        y \in {"YMD1", "YMD2", "YMDx"}, h \in {"HMS", "HMSx"},
        frac \in {<<>>, <<"DOT", "F3">>, <<"COMMA", "F3">>, <<"DOT">>, <<"DOT", "F7">>}}

AppLines ==
    {ts \o <<"SP">> \o lv \o msg :
        ts \in AppStamps,
        lv \in {<<"LB", "ERROR", "RB", "COLON", "SP">>, <<"warn", "ing", "COLON", "SP">>,
                <<"NOTE", "SP">>, <<"LB">>},
        msg \in {<<>>, <<"db", "SP", "up">>}}

(* what stands between the brackets of an access-log line *)
AccessStamps ==
    {<<"DMY1", "COLON", "HMS", "SP", off>> : off \in {"OFFP", "OFFM", "OFF0", "Z"}}
        \cup {<<"DMY2", "COLON", "HMS">>, <<"YMD1", "T", "HMS">>, <<"DMY1", "COLON", "HMSx">>,
              <<"NOTE">>}

AccessLines ==
    {<<"N192", "IPREST", "DASHES", "LB">> \o ts \o <<"RB", "SP", "REQ", "SP", st, "SP", sz>> :
        ts \in AccessStamps, st \in {"N200", "N399", "N400", "N403"}, sz \in {"N15", "DASH"}}

SysLines ==
    {<<"Jan", "SP", "N15", "SP", "HMS", "SP", "host", "SP">> \o src \o pid
            \o <<"COLON", "SP">> \o msg :
        src \in {<<"sshd">>, <<"my", "sshd">>}, pid \in {<<>>, <<"LB", "N1", "RB">>},
        msg \in {<<"db", "SP", "up">>, <<"ERROR">>}}

IisLines ==
    {<<"YMD1", "SP", "HMS", "SP">> \o ip \o <<"IISTAIL">> :
        ip \in {<<"N192", "IPREST">>, <<"V6">>}}

FreeLines ==
    {<<"db", "SP", "up">>, <<"db", "SP", "error">>, <<"WARN", "ING", "COLON", "SP", "FATAL">>,
     <<"up", "SP", "HASH">>, <<"LB", "fatal", "RB">>, <<"YMD1", "SP", "HMS", "SP", "LB">>}

SkippedLines ==
    {<<>>, <<"SP">>, <<"TAB", "SP">>, <<"HASH">>, <<"HASH", "SP", "ERROR">>,
     <<"HASH", "YMD1", "SP", "HMS", "SP", "ERROR">>}

BaseLines == AppLines \cup AccessLines \cup SysLines \cup IisLines \cup FreeLines
                \cup SkippedLines

(* the lines LogParser.parse_line is tried on *)
Lines == BaseLines \cup {Blank(l) : l \in FreeLines \cup SkippedLines \cup IisLines}

(* month-name stamps of syslog shape *)
SysStamps ==
    {<<m, "SP", d, "SP", h>> : m \in {"Jan", "jan"}, d \in {"N1", "N15"}, h \in {"HMS", "HMSx"}}

(* stamps with a 'T' between the date and the time *)
IsoStamps ==
    {<<y, t, "HMS">> \o r :
        y \in {"YMD1", "YMD2"}, t \in {"T", "t"},
        r \in {<<>>, <<"DOT", "F3", "Z">>, <<"DOT", "F3", "z">>, <<"DOT", "F3">>, <<"Z">>,
               <<"ISO0">>, <<"OFFP">>}}

(* "not-a-time" *)
NotATime == <<"note", "DASH", "up", "DASH", "db">>

GarbageStamps == {<<>>, <<"NOTE">>, NotATime, <<"YMD1">>, <<"HMS">>}

BaseStamps == AppStamps \cup AccessStamps \cup SysStamps \cup IsoStamps \cup GarbageStamps
                \cup {<<"YMD1", "SP", "SP", "HMS">>, <<"DMY1", "COLON", "HMS", "SP", "ISO0">>}

(* the strings LogParser.parse_timestamp is tried on *)
Stamps == BaseStamps \cup {Blank(t) : t \in AccessStamps \cup SysStamps}

Skip1 == <<>>

Skip2 == <<"SP", "HASH", "SP", "ERROR">>

Access403 ==
    <<"N192", "IPREST", "DASHES", "LB", "DMY1", "COLON", "HMS", "SP", "OFFP", "RB", "SP",
      "REQ", "SP", "N403", "SP", "DASH">>

AppError ==
    <<"YMD1", "SP", "HMS", "DOT", "F3", "SP", "LB", "ERROR", "RB", "COLON", "SP", "db",
      "SP", "up">>

AppWarning == <<"YMD2", "SP", "HMS", "SP", "warn", "ing", "COLON", "SP", "DB">>

SysLine ==
    <<"Jan", "SP", "N15", "SP", "HMS", "SP", "host", "SP", "my", "sshd", "COLON", "SP", "up">>

(* the lines of the files that are loaded one after another *)
LoadLines == {Skip1, Skip2, Access403, AppWarning}

(* the lines of the files that are loaded to be filtered *)
FilterLines == {Access403, AppError, AppWarning, SysLine, <<"db", "SP", "fatal">>}

Access200 ==
    <<"N192", "IPREST", "DASHES", "LB", "DMY1", "COLON", "HMS", "SP", "OFFP", "RB", "SP",
      "REQ", "SP", "N200", "SP", "N15">>

Access399 ==
    <<"N192", "IPREST", "DASHES", "LB", "DMY2", "COLON", "HMS", "RB", "SP",
      "REQ", "SP", "N399", "SP", "DASH">>

Access400 ==
    <<"N192", "IPREST", "DASHES", "LB", "DMY1", "COLON", "HMS", "SP", "OFFM", "RB", "SP",
      "REQ", "SP", "N400", "SP", "N15">>

(* the lines of the access logs that are loaded *)
AccessLoadLines == {Access200, Access399, Access400, Access403}

(* a line no pattern matches, with a tab and two '"' in it *)
QuotedLine == <<"db", "TAB", "REQ", "SP", "error">>

(* the lines of the files that are loaded to be exported *)
ExportLines == {Access403, AppWarning, QuotedLine}

RECURSIVE SeqsUpTo(_, _)
SeqsUpTo(S, n) ==
    IF n = 0 THEN {<<>>}
    ELSE LET shorter == SeqsUpTo(S, n - 1)
         IN  shorter \cup {Append(q, x) : q \in shorter, x \in S}

TextFiles == {TextFile(ls) : ls \in SeqsUpTo(LoadLines, MaxLines)}

Files == {Missing, Unreadable} \cup TextFiles

FilterFiles == {TextFile(ls) : ls \in SeqsUpTo(FilterLines, MaxLines)}

AccessFiles == {TextFile(ls) : ls \in SeqsUpTo(AccessLoadLines, MaxLines)}

ExportFiles == {TextFile(ls) : ls \in SeqsUpTo(ExportLines, MaxLines)}

(* the format selectors export_results is called with *)
FormatTypes == {"json", "JSON", "csv", "txt", "log"}

(* the lines of the files that are loaded in the GUI *)
GuiLines == {Skip1, Access403, AppWarning}

GuiFiles == {Missing, Unreadable} \cup {TextFile(ls) : ls \in SeqsUpTo(GuiLines, MaxLines)}

(* the widgets as setup_gui leaves them *)
DefaultWidgets ==
    [start_date |-> <<>>, end_date |-> <<>>, checked |-> {GuiLevels[i] : i \in 1..Len(GuiLevels)},
     keywords |-> <<>>, source |-> <<>>]

(* what the user has set when a button is pressed *)
Widgets ==
    {DefaultWidgets,
     [DefaultWidgets EXCEPT !.checked = {}],
     [DefaultWidgets EXCEPT !.checked = {<<"ERROR">>}, !.end_date = <<"YMD2">>],
     [DefaultWidgets EXCEPT !.start_date = <<"NOTE">>],
     [DefaultWidgets EXCEPT !.keywords = <<"DB", "COMMA", "SP", "UP", "COMMA">>,
                            !.source = <<"SP">>]}

(* start and end as a caller builds them from YYYY-MM-DD *)
StartDates == {None, DT(WallTime(2, "MIDNIGHT"), FALSE, 0)}

EndDates == {None, DT(WallTime(2, "EOD"), FALSE, 0)}

LevelLists == {None, Some(<<>>), Some(<< <<"error">>, <<"Warn", "ing">>, <<"info">> >>)}

KeywordLists == {None, Some(<<>>), Some(<< <<"DB">>, <<"UP">> >>)}

SourceStrs == {None, Some(<<>>), Some(<<"SSHD">>)}

Criteria ==
    [start_date : StartDates, end_date : EndDates, levels : LevelLists,
     keywords : KeywordLists, source : SourceStrs]

(* the criteria used while files are loaded one after another *)
FewCriteria ==
    {NoCriteria, [NoCriteria EXCEPT !.levels = Some(<< <<"error">> >>)],
     [NoCriteria EXCEPT !.end_date = DT(WallTime(2, "EOD"), FALSE, 0)]}

-----------------------------------------------------------------------------
(* Operations *)

(* what the reading loop of load_file appends and counts for each file of  *)
(* text, worked out once for every file, wall time and interpreter         *)
ReadFile ==
    [f \in TextFiles \cup AccessFiles, now \in LoadNows, lenient \in BOOLEAN |->
        ReadLines(f.lines, 1, [entries |-> <<>>, total_lines |-> 0, parsed_count |-> 0],
                  now, lenient)]

(* LogAnalyzer.load_file(file_path) *)
LoadFile(f, now) ==
    /\ loads < MaxLoads
    /\ loads' = loads + 1
    /\ IF f.kind = "missing"
           THEN /\ last' = Call("load_file", f, NoCriteria, now, "FileNotFoundError", <<>>)
                /\ UNCHANGED <<written, py311, line, lineno, parsed, entries, stats, result>>
           ELSE IF f.kind = "unreadable"
           THEN /\ entries' = Cleared(entries)
                /\ result' = Seen(result, entries')
                /\ last' = Call("load_file", f, NoCriteria, now, "PermissionError", <<>>)
                /\ UNCHANGED <<written, py311, line, lineno, parsed, stats>>
           ELSE LET r == ReadFile[f, now, py311]
                    es == Cleared(entries) \o r.entries
                    g == generate_statistics(es, stats)
                IN  /\ entries' = es
                    /\ stats' = g.stats
                    /\ result' = Seen(result, es)
                    /\ last' = Call("load_file", f, NoCriteria, now, g.status,
                                    IF g.status = "ok"
                                    THEN <<r.total_lines, r.parsed_count>> ELSE <<>>)
                    /\ UNCHANGED <<written, py311, line, lineno, parsed>>

(* LogAnalyzer.generate_statistics(), called by the user of the analyzer *)
GenerateStatistics ==
    LET g == generate_statistics(entries, stats)
    IN  /\ stats' = g.stats
        /\ last' = Call("generate_statistics", Missing, NoCriteria, None, g.status, <<>>)
        /\ UNCHANGED <<written, py311, line, lineno, parsed, entries, result, loads>>

(* LogAnalyzer.filter_entries(start_date, end_date, levels, keywords, source); *)
(* when it raises the caller keeps the list it held before                 *)
FilterEntries(c) ==
    LET r == filter_entries(entries, c)
    IN  /\ result' = IF r.status = "ok" THEN r.value ELSE result
        /\ last' = Call("filter_entries", Missing, c, None, r.status, <<>>)
        /\ UNCHANGED <<written, py311, line, lineno, parsed, entries, stats, loads>>

(* LogAnalyzer.export_results(output_path, es, format_type), where es is   *)
(* the list the caller got from filter_entries                             *)
ExportResults(target, format_type, now) ==
    LET es == result.items
        r == export_results(target, written, es, format_type, stats, now)
    IN  /\ written' = r.written
        /\ last' = Call("export_results", Target(target), NoCriteria, now, r.status,
                        [format_type |-> format_type, entries |-> es,
                         returned |-> r.returned])
        /\ UNCHANGED <<py311, line, lineno, parsed, entries, stats, result, loads>>

(* LogAnalyzerGUI.load_file with the path of f selected: every exception  *)
(* of analyzer.load_file and of apply_filters is caught and shown          *)
GuiLoadFile(f, now, w) ==
    /\ loads < MaxLoads
    /\ loads' = loads + 1
    /\ IF f.kind = "missing"
           THEN /\ last' = Call("gui_load_file", f, NoCriteria, now, "FileNotFoundError", <<>>)
                /\ UNCHANGED <<written, py311, line, lineno, parsed, entries, stats, result>>
           ELSE IF f.kind = "unreadable"
           THEN /\ entries' = Cleared(entries)
                /\ result' = Seen(result, entries')
                /\ last' = Call("gui_load_file", f, NoCriteria, now, "PermissionError", <<>>)
                /\ UNCHANGED <<written, py311, line, lineno, parsed, stats>>
           ELSE LET r == ReadFile[f, now, py311]
                    es == Cleared(entries) \o r.entries
                    g == generate_statistics(es, stats)
                    held == Seen(result, es)
                    a == apply_filters(es, held, w)
                IN  /\ entries' = es
                    /\ stats' = g.stats
                    /\ result' = IF g.status = "ok" THEN a.filtered ELSE held
                    /\ last' = Call("gui_load_file", f, NoCriteria, now,
                                    IF g.status = "ok" THEN a.status ELSE g.status,
                                    IF g.status = "ok"
                                    THEN <<r.total_lines, r.parsed_count>> ELSE <<>>)
                    /\ UNCHANGED <<written, py311, line, lineno, parsed>>

(* the button "Apply Filters" *)
GuiApplyFilters(w) ==
    LET a == apply_filters(entries, result, w)
    IN  /\ result' = a.filtered
        /\ last' = Call("gui_apply_filters", Missing, NoCriteria, None, a.status, <<>>)
        /\ UNCHANGED <<written, py311, line, lineno, parsed, entries, stats, loads>>

(* LogAnalyzerGUI.export_results with the file dialog answered by target *)
GuiExportResults(target, format_type, now) ==
    IF result.items = <<>>
    THEN /\ last' = Call("gui_export_results", Target(target), NoCriteria, now,
                         "nothing_to_export", <<>>)
         /\ UNCHANGED <<written, py311, line, lineno, parsed, entries, stats, result, loads>>
    ELSE LET r == export_results(target, written, result.items, format_type, stats, now)
         IN  /\ written' = r.written
             /\ last' = Call("gui_export_results", Target(target), NoCriteria, now,
                             r.status, <<r.returned>>)
             /\ UNCHANGED <<py311, line, lineno, parsed, entries, stats, result, loads>>

-----------------------------------------------------------------------------
(* Specifications *)

Unparsed == [done |-> FALSE]

(* LogParser().parse_line(line, lineno) *)
ParseLine(now) ==
    /\ ~ parsed.done
    /\ parsed' = [done |-> TRUE, now |-> now, value |-> parse_line(line, lineno, now, py311)]
    /\ UNCHANGED <<written, py311, line, lineno, entries, stats, last, result, loads>>

(* LogParser().parse_timestamp(line) *)
ParseTimestamp ==
    /\ ~ parsed.done
    /\ parsed' = [done |-> TRUE, now |-> None, value |-> parse_timestamp(line, py311)]
    /\ UNCHANGED <<written, py311, line, lineno, entries, stats, last, result, loads>>

(* a new LogAnalyzer *)
Init ==
    /\ py311 \in BOOLEAN
    /\ line = <<>>
    /\ lineno = 0
    /\ parsed = Unparsed
    /\ entries = <<>>
    /\ stats = EmptyDict
    /\ last = NoCall
    /\ result = Held(<<>>, FALSE)
    /\ loads = 0
    /\ written = None

Next ==
    \/ \E f \in Files, now \in LoadNows : LoadFile(f, now)
    \/ GenerateStatistics
    \/ \E c \in FewCriteria : FilterEntries(c)

Spec == Init /\ [][Next]_vars

(* a LogParser and one line to parse *)
InitParse ==
    /\ py311 \in BOOLEAN
    /\ line \in Lines
    /\ lineno \in {0, 7}
    /\ parsed = Unparsed
    /\ entries = <<>>
    /\ stats = EmptyDict
    /\ last = NoCall
    /\ result = Held(<<>>, FALSE)
    /\ loads = 0
    /\ written = None

NextParse == \E now \in Nows : ParseLine(now)

SpecParse == InitParse /\ [][NextParse]_vars

(* a LogParser and one timestamp string to parse *)
InitStamp ==
    /\ py311 \in BOOLEAN
    /\ line \in Stamps
    /\ lineno = 0
    /\ parsed = Unparsed
    /\ entries = <<>>
    /\ stats = EmptyDict
    /\ last = NoCall
    /\ result = Held(<<>>, FALSE)
    /\ loads = 0
    /\ written = None

NextStamp == ParseTimestamp

SpecStamp == InitStamp /\ [][NextStamp]_vars

(* a LogAnalyzer that has loaded a file, and the criteria to filter it by *)
InitFilter ==
    /\ py311 \in BOOLEAN
    /\ line = <<>>
    /\ lineno = 0
    /\ parsed = Unparsed
    /\ \E f \in FilterFiles, now \in Nows :
        LET r == ReadLines(f.lines, 1,
                           [entries |-> <<>>, total_lines |-> 0, parsed_count |-> 0],
                           now, py311)
            g == generate_statistics(r.entries, EmptyDict)
        IN  /\ g.status = "ok"
            /\ entries = r.entries
            /\ stats = g.stats
            /\ last = Call("load_file", f, NoCriteria, now, "ok",
                           <<r.total_lines, r.parsed_count>>)
    /\ result = Held(<<>>, FALSE)
    /\ loads = 1
    /\ written = None

NextFilter == \E c \in Criteria : FilterEntries(c)

SpecFilter == InitFilter /\ [][NextFilter]_vars

NextAccess == \E f \in AccessFiles, now \in LoadNows : LoadFile(f, now)

(* a new LogAnalyzer that loads access logs *)
SpecAccess == Init /\ [][NextAccess]_vars

(* a LogAnalyzer that has loaded a file, whose records are filtered and    *)
(* exported                                                                *)
InitExport ==
    /\ py311 \in BOOLEAN
    /\ line = <<>>
    /\ lineno = 0
    /\ parsed = Unparsed
    /\ \E f \in ExportFiles, now \in LoadNows :
        LET r == ReadLines(f.lines, 1,
                           [entries |-> <<>>, total_lines |-> 0, parsed_count |-> 0],
                           now, py311)
            g == generate_statistics(r.entries, EmptyDict)
        IN  /\ g.status = "ok"
            /\ entries = r.entries
            /\ stats = g.stats
            /\ last = Call("load_file", f, NoCriteria, now, "ok",
                           <<r.total_lines, r.parsed_count>>)
    /\ result = Held(<<>>, FALSE)
    /\ loads = 1
    /\ written = None

NextExport ==
    \/ \E c \in FewCriteria : FilterEntries(c)
    \/ \E target \in Targets, format_type \in FormatTypes, now \in LoadNows :
           ExportResults(target, format_type, now)

SpecExport == InitExport /\ [][NextExport]_vars

NextGui ==
    \/ \E f \in GuiFiles, now \in LoadNows, w \in Widgets : GuiLoadFile(f, now, w)
    \/ \E w \in Widgets : GuiApplyFilters(w)
    \/ \E target \in {"writable", "failing"}, now \in LoadNows :
           GuiExportResults(target, "json", now)

(* a new LogAnalyzerGUI: a new LogAnalyzer and filtered_entries = [] *)
SpecGui == Init /\ [][NextGui]_vars

-----------------------------------------------------------------------------
(* Properties *)

(* a line is skipped when, trimmed, it is empty or begins with '#' *)
Skipped(l) == Strip(l) = <<>> \/ Head(Strip(l)) = "HASH"

KeptUpTo(lines, n) == {m \in 1..n : ~ Skipped(lines[m])}

(* the position in the file of the i-th line that is not skipped *)
NthKept(lines, i) ==
    CHOOSE n \in 1..Len(lines) :
        ~ Skipped(lines[n]) /\ Cardinality(KeptUpTo(lines, n)) = i

LoadedOk == last.op = "load_file" /\ last.status = "ok"

FilteredOk == last.op = "filter_entries" /\ last.status = "ok"

Range(q) == {q[i] : i \in 1..Len(q)}

(* C1: parse_line returns a record exactly when the trimmed line is not   *)
(* empty and does not begin with '#'; it returns None only for blank and  *)
(* comment lines, whatever else the line holds.                            *)
C1_RecordIffNotSkipped ==
    parsed.done => ((parsed.value # None) <=> ~ Skipped(line))

(* a line no pattern and no severity keyword matches still gave a record *)
C1_Witness ==
    /\ parsed.done
    /\ ~ Skipped(line)
    /\ \A i \in 1..Len(PatternNames) : ~ Pattern(PatternNames[i], Strip(line)).ok
    /\ fallback_match(Strip(line)) = 0
    /\ parsed.value # None

(* C2: load_file on an existing, readable file never fails because of the *)
(* content of its lines: it completes, statistics included, and returns   *)
(* its counts.                                                             *)
C2_LoadNeverFailsOnContent ==
    (last.op = "load_file" /\ last.file.kind = "text") => last.status = "ok"

(* C3: a load that fails because the file is missing or unreadable leaves *)
(* the record set and the statistics snapshot as they were before the     *)
(* call.                                                                   *)
C3_FailedLoadKeepsState ==
    [][(/\ loads' = loads + 1
        /\ last'.op = "load_file"
        /\ last'.status \in {"FileNotFoundError", "PermissionError"})
       => (entries' = entries /\ stats' = stats)]_vars

(* C4: after a successful load the line numbers of the records, in list   *)
(* order, are strictly increasing and each is the 1-based position of the *)
(* record's line in the file, however many lines were skipped before it.  *)
C4_LineNumbers ==
    LoadedOk =>
        /\ \A i \in 1..(Len(entries) - 1) :
               entries[i].line_number < entries[i + 1].line_number
        /\ \A i \in 1..Len(entries) :
               /\ entries[i].line_number = NthKept(last.file.lines, i)
               /\ entries[i].raw_line = Strip(last.file.lines[entries[i].line_number])

(* a record stands behind a skipped line *)
C4_Witness ==
    /\ LoadedOk
    /\ entries # <<>>
    /\ entries[Len(entries)].line_number > Len(entries)

(* C5: after a successful load the record set holds exactly one record    *)
(* per line that is not skipped, in file order, and no record of an       *)
(* earlier file; the pair returned is (lines in the file, records), so    *)
(* parsed_count is the number of lines not skipped and at most            *)
(* total_lines.                                                            *)
C5_ExactlyTheFile ==
    LoadedOk =>
        LET lines == last.file.lines
            kept == KeptUpTo(lines, Len(lines))
        IN  /\ Len(entries) = Cardinality(kept)
            /\ \A i \in 1..Len(entries) :
                   entries[i] = parse_line(lines[NthKept(lines, i)], NthKept(lines, i),
                                           last.now, py311)
            /\ last.value = <<Len(lines), Len(entries)>>
            /\ last.value[2] = Cardinality(kept)
            /\ last.value[2] <= last.value[1]

(* a second file was loaded while a record of the first is still held by  *)
(* the caller                                                              *)
C5_Witness ==
    /\ LoadedOk
    /\ loads = 2
    /\ written = None
    /\ entries # <<>>
    /\ ~ result.alias
    /\ \E i \in 1..Len(result.items) : result.items[i] \notin Range(entries)

RECURSIVE SumOver(_, _)
SumOver(f, S) ==
    IF S = {} THEN 0
    ELSE LET k == CHOOSE x \in S : TRUE IN f[k] + SumOver(f, S \ {k})

(* sum(d.values()) *)
SumValues(d) == SumOver(d, DOMAIN d)

(* C6: the snapshot generate_statistics makes of a non-empty record set   *)
(* has level counts that sum to total_entries, total_entries equal to the *)
(* number of records, and error_count + warning_count <= total_entries.   *)
C6_CountsAddUp ==
    (/\ last.op \in {"load_file", "generate_statistics"}
     /\ last.status = "ok"
     /\ entries # <<>>)
    => /\ SumValues(stats.level_distribution) = stats.total_entries
       /\ stats.total_entries = Len(entries)
       /\ stats.error_count + stats.warning_count <= stats.total_entries

(* a snapshot of two records of one level *)
C6_Witness ==
    /\ LoadedOk
    /\ Len(entries) >= 2
    /\ \E k \in DOMAIN stats.level_distribution : stats.level_distribution[k] >= 2

(* C7: whatever load_file calls were made, the snapshot held is the one   *)
(* of the current record set: stats is empty exactly when the record set  *)
(* is empty, and otherwise total_entries is the number of records.        *)
C7_SnapshotOfCurrentSet ==
    /\ (stats = EmptyDict) <=> (entries = <<>>)
    /\ entries # <<>> => stats.total_entries = Len(entries)

(* r is es with some elements left out *)
IsSubsequence(r, es) ==
    \E f \in [1..Len(r) -> 1..Len(es)] :
        /\ \A i \in 1..Len(r) : r[i] = es[f[i]]
        /\ \A i \in 1..(Len(r) - 1) : f[i] < f[i + 1]

(* C8: the result of filter_entries is a subset of the record set, its    *)
(* elements in their original order, and the same criteria on the same    *)
(* record set give the same result again.                                  *)
C8_Narrowing ==
    FilteredOk =>
        /\ IsSubsequence(result.items, entries)
        /\ filter_entries(entries, last.criteria).value.items = result.items

(* some records were kept and some were dropped *)
C8_Witness ==
    /\ FilteredOk
    /\ result.items # <<>>
    /\ Len(result.items) < Len(entries)
    /\ Truthy(last.criteria.keywords)

(* a criterion counts as supplied when Python takes it for true *)
Supplied(x) == x # None /\ x.some # <<>>

(* e satisfies every criterion of c that is supplied *)
Satisfies(e, c) ==
    /\ c.start_date # None => Instant(e.timestamp) >= Instant(c.start_date)
    /\ c.end_date # None => Instant(e.timestamp) <= Instant(c.end_date)
    /\ Supplied(c.levels) => e.level \in {Upper(x) : x \in Range(c.levels.some)}
    /\ Supplied(c.keywords) =>
           \E k \in Range(c.keywords.some) : Contains(Lower(e.message), Lower(k))
    /\ Supplied(c.source) => Contains(Upper(e.source), Upper(c.source.some))

(* C9: filter_entries returns exactly the records that satisfy every      *)
(* supplied criterion: timestamp >= start, timestamp <= end, level in the *)
(* upper-cased level set, some keyword a substring of message and the     *)
(* source criterion a substring of source, both ignoring case; a          *)
(* criterion that is not supplied removes no record.                       *)
C9_ExactlyTheMatches ==
    FilteredOk =>
        LET keep(e) == Satisfies(e, last.criteria)
        IN  result.items = SelectSeq(entries, keep)

(* all five criteria were supplied, and some record passed them all while *)
(* another did not                                                         *)
C9_Witness ==
    /\ FilteredOk
    /\ last.criteria.start_date # None
    /\ last.criteria.end_date # None
    /\ Supplied(last.criteria.levels)
    /\ Supplied(last.criteria.keywords)
    /\ Supplied(last.criteria.source)
    /\ result.items # <<>>
    /\ Len(result.items) < Len(entries)

(* C10: filter_entries leaves the record set and the snapshot unchanged   *)
(* and returns a new list, not the analyzer's own, whatever the criteria; *)
(* so a list it returned keeps its contents when load_file is called      *)
(* later.                                                                  *)
C10_ReturnsNewList ==
    /\ [](FilteredOk => ~ result.alias)
    /\ [][last'.op = "filter_entries" => (entries' = entries /\ stats' = stats)]_vars
    /\ [][loads' = loads + 1 => result'.items = result.items]_vars

(* the five spellings of 2024-01-15 10:30:25 that the parser is shown with *)
SameMoment ==
    {<<"YMD1", "SP", "HMS">>, <<"YMD1", "SP", "HMS", "DOT", "F3">>,
     <<"YMD1", "SP", "HMS", "COMMA", "F3">>, <<"YMD1", "T", "HMS">>,
     <<"YMD1", "T", "HMS", "DOT", "F3", "Z">>}

(* C11: parse_timestamp returns, for each of the five spellings, a point   *)
(* in time of the same date and the same hour, minute and second, and     *)
(* returns None for "not-a-time".                                          *)
C11_SameDateAndTime ==
    parsed.done =>
        /\ line \in SameMoment =>
               parsed.value # None /\ parsed.value.t = WallTime(1, "HMS")
        /\ line = NotATime => parsed.value = None

(* day/month-name/year stamps as they stand in access logs *)
WithOffset(off) == <<"DMY1", "COLON", "HMS", "SP", off>>

WithoutOffset == <<"DMY1", "COLON", "HMS">>

(* C12: an access-log timestamp with an explicit offset of either sign is *)
(* parsed with that offset, and one without an offset is parsed as UTC.   *)
C12_OffsetOfEitherSign ==
    parsed.done =>
        /\ \A off \in {"OFFP", "OFFM", "OFF0"} :
               line = WithOffset(off) =>
                   parsed.value = DT(WallTime(1, "HMS"), TRUE, OffsetOf(off))
        /\ line = WithoutOffset => parsed.value = DT(WallTime(1, "HMS"), TRUE, 0)

(* C13: a month-name/day stamp without a year is parsed to a point in     *)
(* time with the time written in it, in the current year and not in 1900. *)
C13_SyslogStampParsed ==
    (parsed.done /\ line = <<"Jan", "SP", "N15", "SP", "HMS">>) =>
        /\ parsed.value # None
        /\ HourOfDay(parsed.value) = HourOf("HMS")
        /\ parsed.value.t >= 0

Exported == last.op = "export_results"

ExportedAs(ft) == Exported /\ LowerFormat(last.value.format_type) = ft

Encodings == {"json", "csv", "txt"}

(* the tuple of an exported record, its timestamp in ISO form *)
TupleOfEntry(e) == <<isoformat(e.timestamp), e.level, e.message, e.source, e.line_number>>

(* the tuple of an element of the entries array read back *)
TupleOfDict(d) == <<d.timestamp, d.level, d.message, d.source, d.line_number>>

(* C14: a 'json' export to a file that can be written succeeds, and       *)
(* reading the file back gives metadata.entry_count equal to the number   *)
(* of records exported and an entries array with the same set of          *)
(* (timestamp, level, message, source, line_number) tuples.                *)
C14_JsonRoundTrip ==
    (ExportedAs("json") /\ last.file.kind = "writable") =>
        /\ last.value.returned
        /\ written # None
        /\ written.format = "json"
        /\ LET data == json_load(written.text)
               es == last.value.entries
           IN  /\ data.metadata.entry_count = Len(es)
               /\ Len(data.entries) = Len(es)
               /\ {TupleOfDict(data.entries[i]) : i \in 1..Len(data.entries)}
                      = {TupleOfEntry(es[i]) : i \in 1..Len(es)}

(* two records were exported, one with a message that the file holds in   *)
(* escaped form                                                            *)
C14_Witness ==
    /\ ExportedAs("json")
    /\ last.value.returned
    /\ Len(last.value.entries) >= 2
    /\ written # None
    /\ written.format = "json"
    /\ \E i \in 1..Len(written.text.entries) :
           written.text.entries[i].message.str # last.value.entries[i].message

(* C15: when the output target cannot be opened or written, export_results *)
(* in each of the three encodings returns False and does not raise, and   *)
(* it leaves the record set and the snapshot unchanged.                    *)
C15_WriteFailureReported ==
    /\ []((Exported /\ last.file.kind # "writable"
              /\ LowerFormat(last.value.format_type) \in Encodings)
          => (last.status = "ok" /\ ~ last.value.returned))
    /\ [][last'.op = "export_results" => (entries' = entries /\ stats' = stats)]_vars

(* a write failed half way while the analyzer held records *)
C15_Witness ==
    /\ ExportedAs("csv")
    /\ last.file.kind = "failing"
    /\ ~ last.value.returned
    /\ written = Partial
    /\ entries # <<>>
    /\ stats # EmptyDict

(* C19: export_results returns True only when it has written the file in  *)
(* one of the three encodings.                                             *)
C19_TrueOnlyWhenWritten ==
    (Exported /\ last.value.returned) =>
        /\ LowerFormat(last.value.format_type) \in Encodings
        /\ written # None
        /\ written.format = LowerFormat(last.value.format_type)

(* the status of the access-log line a record was made from, 0 when it was *)
(* made from another line                                                  *)
StatusOf(e) ==
    LET m == apache_access(e.raw_line) IN IF m.ok THEN IntOf(m.status[1]) ELSE 0

Statuses(es) == [i \in 1..Len(es) |-> StatusOf(es[i])]

(* C16: a record made from an access-log line has level INFO when the     *)
(* status is below 400 and ERROR otherwise, source 'apache' and the       *)
(* message "method url - status"; the snapshot of a loaded access log has *)
(* error_count equal to the number of statuses from 400 up and            *)
(* error_count * 100 = error_rate * total_entries, so that statuses 403   *)
(* and 200 give error_count 1, total_entries 2 and error_rate 50.         *)
C16_AccessLevelAndRate ==
    LoadedOk =>
        /\ \A i \in 1..Len(entries) :
               LET m == apache_access(entries[i].raw_line)
               IN  m.ok =>
                       /\ entries[i].level
                              = (IF StatusOf(entries[i]) < 400 THEN <<"INFO">> ELSE <<"ERROR">>)
                       /\ entries[i].source = <<"apache">>
                       /\ entries[i].message
                              = <<"GET", "SP", "URL", "SP", "DASH", "SP">> \o m.status
        /\ entries # <<>> =>
               /\ stats.total_entries = Len(entries)
               /\ stats.error_count
                      = Cardinality({i \in 1..Len(entries) : StatusOf(entries[i]) >= 400})
               /\ stats.error_count * 100 * stats.error_rate.den
                      = stats.error_rate.num * stats.total_entries
        /\ Statuses(entries) \in {<<403, 200>>, <<200, 403>>} =>
               /\ stats.error_count = 1
               /\ stats.total_entries = 2
               /\ stats.error_rate.num = 50 * stats.error_rate.den

(* the file of two access-log lines with statuses 403 and 200 was loaded *)
C16_Witness ==
    /\ LoadedOk
    /\ Statuses(entries) = <<403, 200>>
    /\ stats.error_count = 1

(* C17: a line of the wide structured web-server format is classified by  *)
(* that pattern and by no pattern before it, so its level is INFO and not *)
(* a fragment of the server address.                                       *)
C17_WebServerLineIsInfo ==
    (parsed.done /\ ~ Skipped(line) /\ iis_log(Strip(line)).ok) =>
        /\ \A i \in 1..3 : ~ Pattern(PatternNames[i], Strip(line)).ok
        /\ parsed.value.level = <<"INFO">>

NoPatternMatches(l) == \A i \in 1..Len(PatternNames) : ~ Pattern(PatternNames[i], l).ok

(* the severity keywords that stand in l, in whatever letter case *)
KeywordsIn(l) == {UpperLex(l[i]) : i \in 1..Len(l)} \cap Keywords

(* C18: a line that is not skipped and that no pattern matches gives a    *)
(* record whose level is a severity keyword standing in the line, in      *)
(* upper case, or INFO when there is none; its source is 'unknown', its   *)
(* message and raw_line are the trimmed line and its line_number the one  *)
(* passed in.                                                              *)
C18_FallbackRecord ==
    (parsed.done /\ ~ Skipped(line) /\ NoPatternMatches(Strip(line))) =>
        LET l == Strip(line)
            e == parsed.value
        IN  /\ e # None
            /\ KeywordsIn(l) # {} => \E k \in KeywordsIn(l) : e.level = <<k>>
            /\ KeywordsIn(l) = {} => e.level = <<"INFO">>
            /\ e.source = <<"unknown">>
            /\ e.message = l
            /\ e.raw_line = l
            /\ e.line_number = lineno

(* the keyword stands in the line in lower case, between blanks that were *)
(* trimmed                                                                 *)
C18_Witness ==
    /\ parsed.done
    /\ ~ Skipped(line)
    /\ NoPatternMatches(Strip(line))
    /\ Strip(line) # line
    /\ Has(line, {"error", "fatal"})
    /\ parsed.value.level \in {<<"ERROR">>, <<"FATAL">>}
    /\ parsed.value.line_number = 7

(* C20: filter_entries returns a list and does not raise, whatever the    *)
(* loaded records and whatever criteria of the right types it is given.   *)
C20_FilterNeverRaises ==
    last.op = "filter_entries" => last.status = "ok"

(* C21: in the GUI every record of filtered_entries belongs to the        *)
(* analyzer's current record set, after any sequence of load_file and     *)
(* apply_filters actions; so after a load, also one that yields no        *)
(* record, filtered_entries holds no record of a file loaded before.      *)
C21_FilteredOfCurrentSet ==
    \A i \in 1..Len(result.items) : result.items[i] \in Range(entries)

====
